---- MODULE Spec2Model ----
(***************************************************************************)
(* Model of the Home component of src/pages/index.tsx (the Finnhub /       *)
(* Supabase version, lines 138-457): the watchlist controller              *)
(* (fetchWatchlist, addToWatchlist, removeFromWatchlist,                   *)
(* handleWatchlistToggle) and the search controller (handleSearch,         *)
(* fetchStockData, fetchChartData).  Every await is a suspension point:    *)
(* an operation is a process whose pc names the call it is waiting for,    *)
(* and one action is the code that runs when that call returns or throws.  *)
(***************************************************************************)
EXTENDS Integers, Sequences, FiniteSets, Bags

(* ------------------------------ bounds -------------------------------- *)
\* ticker strings the user types
Symbols == {"AAPL", "MSFT"}
\* rows the Store ever hands an id to (ids are serial, 1..MaxId)
MaxId == 2
\* operations (add, remove, search) that may be in flight at once
MaxProcs == 2
\* longest candle series the history provider returns
MaxHist == 1

\* the prices the quote provider answers with
Prices == {100}

(* ------------------------- program constants -------------------------- *)
FetchStockFailed == "Failed to fetch stock data. Please try again."
FetchWatchlistFailed == "Failed to fetch watchlist. Please try again."
AddFailed == "Failed to add to watchlist. Please try again."
RemoveFailed == "Failed to remove from watchlist. Please try again."

VARIABLES
    ticker,            \* useState('')            the search box
    stockData,         \* useState(null)          <<>> or <<StockData>>
    chartData,         \* useState([])            sequence of chart points
    loading,           \* useState(false)
    error,             \* useState('')
    watchlist,         \* useState([])            sequence of WatchlistItem
    watchlistLoading,  \* useState(true)
    showWatchlist,     \* useState(false)
    store,             \* rows of the Supabase table 'watchlist'
    nextId,            \* the table's serial id
    load,              \* the fetchWatchlist call started by useEffect
    procs,             \* the add / remove / search calls in flight
    lastStep           \* history: the step just taken and the state before it

vars == <<ticker, stockData, chartData, loading, error, watchlist,
          watchlistLoading, showWatchlist, store, nextId, load, procs, lastStep>>

(* ------------------------------ helpers ------------------------------- *)
RECURSIVE FilterKeepSymbol(_, _)
\* mutant of FilterOutSymbol: the predicate inverted, "item.symbol === symbol"
FilterKeepSymbol(items, symbol) ==
    IF items = <<>> THEN <<>>
    ELSE IF Head(items).symbol = symbol
         THEN <<Head(items)>> \o FilterKeepSymbol(Tail(items), symbol)
         ELSE FilterKeepSymbol(Tail(items), symbol)

RECURSIVE FilterOutSymbol(_, _)
\* Array.prototype.filter with the predicate "item.symbol !== symbol"
FilterOutSymbol(items, symbol) ==
    IF items = <<>> THEN <<>>
    ELSE IF Head(items).symbol # symbol
         THEN <<Head(items)>> \o FilterOutSymbol(Tail(items), symbol)
         ELSE FilterOutSymbol(Tail(items), symbol)

\* the object fetchStockData returns on success
StockDataOf(symbol, price) == [symbol |-> symbol, price |-> price]

\* { ...item, ...stockData }: the row's id, stockData's symbol and quote
MergeQuote(item, stock) ==
    [id |-> item.id, symbol |-> stock.symbol, quote |-> <<stock.price>>]

\* a Store row as a WatchlistItem without price / change / percentChange
BareItem(row) == [id |-> row.id, symbol |-> row.symbol, quote |-> <<>>]

\* watchlist.some(item => item && item.symbol === symbol)
isInWatchlist(symbol) ==
    \E i \in 1..Len(watchlist) : watchlist[i].symbol = symbol

NoRow == [id |-> 0, symbol |-> ""]
IdleLoad == [pc |-> "idle", data |-> <<>>, results |-> <<>>, failed |-> {}]
StartedLoad == [pc |-> "select", data |-> <<>>, results |-> <<>>, failed |-> {}]

Quiescent == load.pc = "idle" /\ procs = EmptyBag

\* procs is the bag of the calls in flight: starting one adds its record,
\* a call that moves to its next await replaces it, one that returns drops it
CanStart == BagCardinality(procs) < MaxProcs
Started(q) == procs (+) SetToBag({q})
Finished(p) == procs (-) SetToBag({p})
Moved(p, q) == (procs (-) SetToBag({p})) (+) SetToBag({q})
InFlight == BagToSet(procs)

\* the symbols of a sequence of items, in order
SymbolSeq(items) == [i \in 1..Len(items) |-> items[i].symbol]

\* the history record of a step: its name, the symbol it is about, the
\* watchlist and error before it, the provider calls it issued, the number
\* of calls in flight before it and, for a step of fetchWatchlist, the
\* listing and the positions whose quote failed.  Three fields are carried
\* from step to step:
\*   loaded    <<symbols>> of the last load that ran to its end, <<>> once
\*             the Store has been written since
\*   prevLoad  in the step that ends a load, the value loaded had before
\*   serial    the listing of this page's load succeeded and never more
\*             than one add / remove / search has been in flight since
Step(kind, symbol, calls) ==
    [kind |-> kind, symbol |-> symbol, pre |-> watchlist, preError |-> error,
     calls |-> calls, inFlight |-> BagCardinality(procs),
     data |-> load.data, failed |-> load.failed,
     loaded |-> lastStep.loaded, prevLoad |-> <<>>,
     serial |-> lastStep.serial /\ BagCardinality(procs) <= 1]

\* the history record of a step of fetchWatchlist after a listing that
\* succeeded; the step that ends the load records its outcome
LoadStep(kind, symbol, calls, data, failed) ==
    LET step == [Step(kind, symbol, calls)
                 EXCEPT !.data = data, !.failed = failed]
    IN  IF load'.pc = "idle"
        THEN [step EXCEPT !.loaded = <<SymbolSeq(watchlist')>>,
                          !.prevLoad = lastStep.loaded,
                          !.serial = TRUE]
        ELSE step

QuoteCall(symbol) == [api |-> "quote", symbol |-> symbol]
CandleCall(symbol) == [api |-> "candle", symbol |-> symbol]

(* ------------------------------- Init --------------------------------- *)
\* the useState initial values, and useEffect has started fetchWatchlist
Init ==
    /\ ticker = ""
    /\ stockData = <<>>
    /\ chartData = <<>>
    /\ loading = FALSE
    /\ error = ""
    /\ watchlist = <<>>
    /\ watchlistLoading = TRUE
    /\ showWatchlist = FALSE
    /\ store = <<>>
    /\ nextId = 1
    /\ load = StartedLoad
    /\ procs = EmptyBag
    /\ lastStep = [kind |-> "Init", symbol |-> "", pre |-> <<>>,
                   preError |-> "", calls |-> {}, inFlight |-> 0,
                   data |-> <<>>, failed |-> {},
                   loaded |-> <<>>, prevLoad |-> <<>>, serial |-> FALSE]

(* --------------------------- fetchWatchlist --------------------------- *)
\* mutant of SetResult: results collected in the order they arrive
SetResultInArrivalOrder(results, i, item) ==
    LET k == CHOOSE k \in 1..Len(results) :
                 /\ results[k] = <<>>
                 /\ \A j \in 1..(k - 1) : results[j] # <<>>
    IN  [results EXCEPT ![k] = <<item>>]

\* Promise.all keeps each result at the position of its promise
SetResult(results, i, item) == [results EXCEPT ![i] = <<item>>]

AllSettled(results) == \A i \in 1..Len(results) : results[i] # <<>>

\* mutant of Joined: the rows whose quote failed are left out
JoinedWithQuotes(results) ==
    SelectSeq([i \in 1..Len(results) |-> results[i][1]],
              LAMBDA item : item.quote # <<>>)

\* the array Promise.all resolves to
Joined(results) == [i \in 1..Len(results) |-> results[i][1]]

\* the i-th mapped promise settles with item; when it is the last one,
\* Promise.all resolves and the rest of fetchWatchlist runs in the same turn:
\* setWatchlist(updatedWatchlist), then finally setWatchlistLoading(false)
SettleItem(i, item, failed) ==
    LET results == SetResult(load.results, i, item) IN
    IF AllSettled(results)
    THEN /\ watchlist' = Joined(results)
         /\ watchlistLoading' = FALSE
         /\ load' = IdleLoad
    ELSE /\ load' = [load EXCEPT !.results = results, !.failed = failed]
         /\ UNCHANGED <<watchlist, watchlistLoading>>

\* supabase.from('watchlist').select('*') returns { data, error: null }:
\* every item's fetchStockData is started before any is awaited
LoadSelectOk ==
    /\ load.pc = "select"
    /\ IF store = <<>>
       THEN /\ watchlist' = <<>>
            /\ watchlistLoading' = FALSE
            /\ load' = IdleLoad
       ELSE /\ load' = [pc |-> "quotes", data |-> store,
                        results |-> [i \in 1..Len(store) |-> <<>>],
                        failed |-> {}]
            /\ UNCHANGED <<watchlist, watchlistLoading>>
    /\ lastStep' = LoadStep("LoadSelectOk", "",
                            {QuoteCall(store[i].symbol) : i \in 1..Len(store)},
                            store, {})
    /\ UNCHANGED <<ticker, stockData, chartData, loading, error,
                   showWatchlist, store, nextId, procs>>

\* select returns an error: throw error, catch, setError, finally
LoadSelectFail ==
    /\ load.pc = "select"
    /\ error' = FetchWatchlistFailed
    /\ watchlistLoading' = FALSE
    /\ load' = IdleLoad
    /\ lastStep' = Step("LoadSelectFail", "", {})
    /\ UNCHANGED <<ticker, stockData, chartData, loading, watchlist,
                   showWatchlist, store, nextId, procs>>

\* fetchStockData(item.symbol) resolves: return { ...item, ...stockData }
LoadQuoteOk(i, price) ==
    /\ load.pc = "quotes"
    /\ i \in 1..Len(load.data)
    /\ load.results[i] = <<>>
    /\ SettleItem(i, MergeQuote(load.data[i],
                                StockDataOf(load.data[i].symbol, price)),
                  load.failed)
    /\ lastStep' = LoadStep("LoadQuoteOk", load.data[i].symbol, {},
                            load.data, load.failed)
    /\ UNCHANGED <<ticker, stockData, chartData, loading, error,
                   showWatchlist, store, nextId, procs>>

\* mutant of LoadQuoteFail: no inner try / catch, so the rejection reaches
\* Promise.all and fetchWatchlist's outer catch
LoadQuoteFailRejects(i) ==
    /\ load.pc = "quotes"
    /\ i \in 1..Len(load.data)
    /\ load.results[i] = <<>>
    /\ error' = FetchWatchlistFailed
    /\ watchlistLoading' = FALSE
    /\ load' = IdleLoad
    /\ lastStep' = [Step("LoadQuoteFail", load.data[i].symbol, {})
                    EXCEPT !.failed = load.failed \cup {i}]
    /\ UNCHANGED <<ticker, stockData, chartData, loading, watchlist,
                   showWatchlist, store, nextId, procs>>

\* fetchStockData(item.symbol) throws: the inner catch logs and returns item
LoadQuoteFail(i) ==
    /\ load.pc = "quotes"
    /\ i \in 1..Len(load.data)
    /\ load.results[i] = <<>>
    /\ SettleItem(i, BareItem(load.data[i]), load.failed \cup {i})
    /\ lastStep' = LoadStep("LoadQuoteFail", load.data[i].symbol, {},
                            load.data, load.failed \cup {i})
    /\ UNCHANGED <<ticker, stockData, chartData, loading, error,
                   showWatchlist, store, nextId, procs>>

\* the page is opened again: a new Home instance with the useState initial
\* values, whose useEffect starts fetchWatchlist; the Store keeps its rows.
\* Taken when no call of the previous instance is still in flight.
Mount ==
    /\ Quiescent
    /\ ticker' = ""
    /\ stockData' = <<>>
    /\ chartData' = <<>>
    /\ loading' = FALSE
    /\ error' = ""
    /\ watchlist' = <<>>
    /\ watchlistLoading' = TRUE
    /\ showWatchlist' = FALSE
    /\ load' = StartedLoad
    /\ lastStep' = [Step("Mount", "", {}) EXCEPT !.serial = FALSE]
    /\ UNCHANGED <<store, nextId, procs>>

(* ------------------------------- search ------------------------------- *)
\* data.t.map(...): one chart point per timestamp of the candle response
ChartOf(symbol, n) == [k \in 1..n |-> [symbol |-> symbol, day |-> k]]

\* the body of handleSearch up to its first await, for the ticker the
\* handler's closure holds: if (ticker) { setLoading(true); setError(''); ...
HandleSearch(closureTicker) ==
    IF closureTicker # ""
    THEN /\ CanStart
         /\ loading' = TRUE
         /\ error' = ""
         /\ procs' = Started([kind |-> "search", pc |-> "quote",
                              symbol |-> closureTicker, row |-> NoRow])
    ELSE UNCHANGED <<loading, error, procs>>

HandleSearchCalls(closureTicker) ==
    IF closureTicker # "" THEN {QuoteCall(closureTicker)} ELSE {}

\* onChange of the search box: setTicker(e.target.value), a ticker typed
SetTicker(s) ==
    /\ ~watchlistLoading
    /\ ticker' = s
    /\ lastStep' = Step("SetTicker", s, {})
    /\ UNCHANGED <<stockData, chartData, loading, error, watchlist,
                   watchlistLoading, showWatchlist, store, nextId, load, procs>>

\* the form's onSubmit; the submit button is disabled while loading
SubmitSearch ==
    /\ ~watchlistLoading
    /\ ~loading
    /\ ticker # ""
    /\ HandleSearch(ticker)
    /\ lastStep' = Step("SubmitSearch", ticker, HandleSearchCalls(ticker))
    /\ UNCHANGED <<ticker, stockData, chartData, watchlist, watchlistLoading,
                   showWatchlist, store, nextId, load>>

\* onSelect of a watchlist item: setTicker(symbol), then handleSearch, which
\* reads the ticker of the render the handler was created in
handleWatchlistSelect(symbol) ==
    /\ ~watchlistLoading
    /\ showWatchlist
    /\ isInWatchlist(symbol)
    /\ ticker' = symbol
    /\ HandleSearch(ticker)
    /\ lastStep' = Step("handleWatchlistSelect", symbol,
                        HandleSearchCalls(ticker))
    /\ UNCHANGED <<stockData, chartData, watchlist, watchlistLoading,
                   showWatchlist, store, nextId, load>>

\* await fetchStockData(ticker) resolves: setStockData(data), then
\* fetchChartData(ticker) issues the candle request
SearchQuoteOk(p, price) ==
    /\ p \in InFlight /\ p.kind = "search" /\ p.pc = "quote"
    /\ stockData' = <<StockDataOf(p.symbol, price)>>
    /\ procs' = Moved(p, [p EXCEPT !.pc = "candle"])
    /\ lastStep' = Step("SearchQuoteOk", p.symbol,
                        {CandleCall(p.symbol)})
    /\ UNCHANGED <<ticker, chartData, loading, error, watchlist,
                   watchlistLoading, showWatchlist, store, nextId, load>>

\* mutant of SearchQuoteFail: the quote failure is caught on its own and
\* handleSearch goes on to fetchChartData
SearchQuoteFailContinues(p) ==
    /\ p \in InFlight /\ p.kind = "search" /\ p.pc = "quote"
    /\ error' = FetchStockFailed
    /\ stockData' = <<>>
    /\ procs' = Moved(p, [p EXCEPT !.pc = "candle"])
    /\ lastStep' = Step("SearchQuoteFail", p.symbol, {CandleCall(p.symbol)})
    /\ UNCHANGED <<ticker, chartData, loading, watchlist, watchlistLoading,
                   showWatchlist, store, nextId, load>>

\* await fetchStockData(ticker) throws: catch, setError, setStockData(null),
\* finally setLoading(false)
SearchQuoteFail(p) ==
    /\ p \in InFlight /\ p.kind = "search" /\ p.pc = "quote"
    /\ error' = FetchStockFailed
    /\ stockData' = <<>>
    /\ loading' = FALSE
    /\ procs' = Finished(p)
    /\ lastStep' = Step("SearchQuoteFail", p.symbol, {})
    /\ UNCHANGED <<ticker, chartData, watchlist, watchlistLoading,
                   showWatchlist, store, nextId, load>>

\* the candle request returns s === 'ok' with n timestamps: setChartData,
\* then handleSearch's finally setLoading(false)
SearchCandleOk(p, n) ==
    /\ p \in InFlight /\ p.kind = "search" /\ p.pc = "candle"
    /\ chartData' = ChartOf(p.symbol, n)
    /\ loading' = FALSE
    /\ procs' = Finished(p)
    /\ lastStep' = Step("SearchCandleOk", p.symbol, {})
    /\ UNCHANGED <<ticker, stockData, error, watchlist, watchlistLoading,
                   showWatchlist, store, nextId, load>>

\* the candle request returns another status: setChartData([])
SearchCandleNoData(p) ==
    /\ p \in InFlight /\ p.kind = "search" /\ p.pc = "candle"
    /\ chartData' = <<>>
    /\ loading' = FALSE
    /\ procs' = Finished(p)
    /\ lastStep' = Step("SearchCandleNoData", p.symbol, {})
    /\ UNCHANGED <<ticker, stockData, error, watchlist, watchlistLoading,
                   showWatchlist, store, nextId, load>>

\* mutant of SearchCandleFail: the finally block of handleSearch is skipped
\* when the history fetch throws, so setLoading(false) never runs
SearchCandleFailStaysBusy(p) ==
    /\ p \in InFlight /\ p.kind = "search" /\ p.pc = "candle"
    /\ chartData' = <<>>
    /\ procs' = Finished(p)
    /\ lastStep' = Step("SearchCandleFail", p.symbol, {})
    /\ UNCHANGED <<ticker, stockData, loading, error, watchlist,
                   watchlistLoading, showWatchlist, store, nextId, load>>

\* the candle request throws: fetchChartData's catch, setChartData([])
SearchCandleFail(p) ==
    /\ p \in InFlight /\ p.kind = "search" /\ p.pc = "candle"
    /\ chartData' = <<>>
    /\ loading' = FALSE
    /\ procs' = Finished(p)
    /\ lastStep' = Step("SearchCandleFail", p.symbol, {})
    /\ UNCHANGED <<ticker, stockData, error, watchlist, watchlistLoading,
                   showWatchlist, store, nextId, load>>

(* ------------------------ watchlist mutations ------------------------- *)
\* addToWatchlist(symbol) up to its first await: the insert is sent
StartAdd(symbol) ==
    procs' = Started([kind |-> "add", pc |-> "insert", symbol |-> symbol,
                      row |-> NoRow])

\* removeFromWatchlist(symbol) up to its await: the delete is sent
StartRemove(symbol) ==
    procs' = Started([kind |-> "remove", pc |-> "delete", symbol |-> symbol,
                      row |-> NoRow])

\* mutant of handleWatchlistToggle: the branches swapped
handleWatchlistToggleSwapped ==
    /\ ~watchlistLoading
    /\ stockData # <<>>
    /\ CanStart
    /\ IF isInWatchlist(stockData[1].symbol)
       THEN StartAdd(stockData[1].symbol)
       ELSE StartRemove(stockData[1].symbol)
    /\ lastStep' = Step("handleWatchlistToggle", stockData[1].symbol, {})
    /\ UNCHANGED <<ticker, stockData, chartData, loading, error, watchlist,
                   watchlistLoading, showWatchlist, store, nextId, load>>

\* the star button of the displayed quote: remove if isInWatchlist, else add
handleWatchlistToggle ==
    /\ ~watchlistLoading
    /\ stockData # <<>>
    /\ CanStart
    /\ IF isInWatchlist(stockData[1].symbol)
       THEN StartRemove(stockData[1].symbol)
       ELSE StartAdd(stockData[1].symbol)
    /\ lastStep' = Step("handleWatchlistToggle", stockData[1].symbol, {})
    /\ UNCHANGED <<ticker, stockData, chartData, loading, error, watchlist,
                   watchlistLoading, showWatchlist, store, nextId, load>>

\* the Remove button of a side panel item: onRemove(item.symbol)
RemoveClick(symbol) ==
    /\ ~watchlistLoading
    /\ showWatchlist
    /\ isInWatchlist(symbol)
    /\ CanStart
    /\ StartRemove(symbol)
    /\ lastStep' = Step("RemoveClick", symbol, {})
    /\ UNCHANGED <<ticker, stockData, chartData, loading, error, watchlist,
                   watchlistLoading, showWatchlist, store, nextId, load>>

\* the insert returns the new row: fetchStockData(symbol) is called
AddInsertOk(p) ==
    /\ p \in InFlight /\ p.kind = "add" /\ p.pc = "insert"
    /\ nextId <= MaxId
    /\ LET row == [id |-> nextId, symbol |-> p.symbol] IN
       /\ store' = Append(store, row)
       /\ procs' = Moved(p, [p EXCEPT !.pc = "quote", !.row = row])
    /\ nextId' = nextId + 1
    /\ lastStep' = [Step("AddInsertOk", p.symbol, {QuoteCall(p.symbol)})
                    EXCEPT !.loaded = <<>>]
    /\ UNCHANGED <<ticker, stockData, chartData, loading, error, watchlist,
                   watchlistLoading, showWatchlist, load>>

\* mutant of AddInsertFail: "if (error) throw error" left out, so the add
\* goes on to fetchStockData
AddInsertFailIgnored(p) ==
    /\ p \in InFlight /\ p.kind = "add" /\ p.pc = "insert"
    /\ procs' = Moved(p, [p EXCEPT !.pc = "quote"])
    /\ lastStep' = Step("AddInsertFail", p.symbol, {QuoteCall(p.symbol)})
    /\ UNCHANGED <<ticker, stockData, chartData, loading, error, watchlist,
                   watchlistLoading, showWatchlist, store, nextId, load>>

\* the insert returns an error: throw error, catch, setError
AddInsertFail(p) ==
    /\ p \in InFlight /\ p.kind = "add" /\ p.pc = "insert"
    /\ error' = AddFailed
    /\ procs' = Finished(p)
    /\ lastStep' = Step("AddInsertFail", p.symbol, {})
    /\ UNCHANGED <<ticker, stockData, chartData, loading, watchlist,
                   watchlistLoading, showWatchlist, store, nextId, load>>

\* mutant of AddQuoteOk: the quote fetched for the new entry is also put on
\* display, setStockData(stockData)
AddQuoteOkShowsQuote(p, price) ==
    /\ p \in InFlight /\ p.kind = "add" /\ p.pc = "quote"
    /\ watchlist' = Append(watchlist,
                           MergeQuote(p.row,
                                      StockDataOf(p.symbol, price)))
    /\ stockData' = <<StockDataOf(p.symbol, price)>>
    /\ chartData' = <<>>
    /\ procs' = Finished(p)
    /\ lastStep' = Step("AddQuoteOk", p.symbol, {})
    /\ UNCHANGED <<ticker, loading, error,
                   watchlistLoading, showWatchlist, store, nextId, load>>

\* fetchStockData resolves:
\* setWatchlist(prev => [...prev, { ...data, ...stockData }])
AddQuoteOk(p, price) ==
    /\ p \in InFlight /\ p.kind = "add" /\ p.pc = "quote"
    /\ watchlist' = Append(watchlist,
                           MergeQuote(p.row,
                                      StockDataOf(p.symbol, price)))
    /\ procs' = Finished(p)
    /\ lastStep' = Step("AddQuoteOk", p.symbol, {})
    /\ UNCHANGED <<ticker, stockData, chartData, loading, error,
                   watchlistLoading, showWatchlist, store, nextId, load>>

\* fetchStockData throws inside addToWatchlist's try: the same catch runs,
\* setError, and setWatchlist is never reached
AddQuoteFail(p) ==
    /\ p \in InFlight /\ p.kind = "add" /\ p.pc = "quote"
    /\ error' = AddFailed
    /\ procs' = Finished(p)
    /\ lastStep' = Step("AddQuoteFail", p.symbol, {})
    /\ UNCHANGED <<ticker, stockData, chartData, loading, watchlist,
                   watchlistLoading, showWatchlist, store, nextId, load>>

\* mutant of RemoveDeleteOk: a delete that matched no displayed entry is
\* reported as a failure
RemoveDeleteOkReportsMissing(p) ==
    /\ p \in InFlight /\ p.kind = "remove" /\ p.pc = "delete"
    /\ store' = FilterOutSymbol(store, p.symbol)
    /\ watchlist' = FilterOutSymbol(watchlist, p.symbol)
    /\ error' = IF isInWatchlist(p.symbol) THEN error ELSE RemoveFailed
    /\ procs' = Finished(p)
    /\ lastStep' = [Step("RemoveDeleteOk", p.symbol, {})
                    EXCEPT !.loaded = <<>>]
    /\ UNCHANGED <<ticker, stockData, chartData, loading,
                   watchlistLoading, showWatchlist, nextId, load>>

\* delete().eq('symbol', symbol) returns no error: every row with the symbol
\* is gone, setWatchlist(prev => prev.filter(item => item.symbol !== symbol))
RemoveDeleteOk(p) ==
    /\ p \in InFlight /\ p.kind = "remove" /\ p.pc = "delete"
    /\ store' = FilterOutSymbol(store, p.symbol)
    /\ watchlist' = FilterOutSymbol(watchlist, p.symbol)
    /\ procs' = Finished(p)
    /\ lastStep' = [Step("RemoveDeleteOk", p.symbol, {})
                    EXCEPT !.loaded = <<>>]
    /\ UNCHANGED <<ticker, stockData, chartData, loading, error,
                   watchlistLoading, showWatchlist, nextId, load>>

\* mutant of RemoveDeleteFail: the entry is dropped from the view before the
\* Store has confirmed the delete
RemoveDeleteFailOptimistic(p) ==
    /\ p \in InFlight /\ p.kind = "remove" /\ p.pc = "delete"
    /\ error' = RemoveFailed
    /\ watchlist' = FilterOutSymbol(watchlist, p.symbol)
    /\ procs' = Finished(p)
    /\ lastStep' = Step("RemoveDeleteFail", p.symbol, {})
    /\ UNCHANGED <<ticker, stockData, chartData, loading,
                   watchlistLoading, showWatchlist, store, nextId, load>>

\* the delete returns an error: throw error, catch, setError
RemoveDeleteFail(p) ==
    /\ p \in InFlight /\ p.kind = "remove" /\ p.pc = "delete"
    /\ error' = RemoveFailed
    /\ procs' = Finished(p)
    /\ lastStep' = Step("RemoveDeleteFail", p.symbol, {})
    /\ UNCHANGED <<ticker, stockData, chartData, loading, watchlist,
                   watchlistLoading, showWatchlist, store, nextId, load>>

\* the round button: setShowWatchlist(!showWatchlist)
TogglePanel ==
    /\ ~watchlistLoading
    /\ showWatchlist' = ~showWatchlist
    /\ lastStep' = Step("TogglePanel", "", {})
    /\ UNCHANGED <<ticker, stockData, chartData, loading, error, watchlist,
                   watchlistLoading, store, nextId, load, procs>>

(* ---------------------------- specification --------------------------- *)
Next ==
    \/ LoadSelectOk
    \/ LoadSelectFail
    \/ \E i \in 1..MaxId, price \in Prices : LoadQuoteOk(i, price)
    \/ \E i \in 1..MaxId : LoadQuoteFail(i)
    \/ Mount
    \/ \E s \in Symbols : SetTicker(s)
    \/ SubmitSearch
    \/ \E s \in Symbols : handleWatchlistSelect(s)
    \/ \E p \in InFlight, price \in Prices : SearchQuoteOk(p, price)
    \/ \E p \in InFlight : SearchQuoteFail(p)
    \/ \E p \in InFlight, n \in 1..MaxHist : SearchCandleOk(p, n)
    \/ \E p \in InFlight : SearchCandleNoData(p)
    \/ \E p \in InFlight : SearchCandleFail(p)
    \/ handleWatchlistToggle
    \/ \E s \in Symbols : RemoveClick(s)
    \/ \E p \in InFlight : AddInsertOk(p)
    \/ \E p \in InFlight : AddInsertFail(p)
    \/ \E p \in InFlight, price \in Prices : AddQuoteOk(p, price)
    \/ \E p \in InFlight : AddQuoteFail(p)
    \/ \E p \in InFlight : RemoveDeleteOk(p)
    \/ \E p \in InFlight : RemoveDeleteFail(p)
    \/ TogglePanel

Spec == Init /\ [][Next]_vars

\* a call of fetchWatchlist returns: the Store listing or one of the quotes
LoadReturns ==
    \/ LoadSelectOk
    \/ LoadSelectFail
    \/ \E i \in 1..MaxId, price \in Prices : LoadQuoteOk(i, price)
    \/ \E i \in 1..MaxId : LoadQuoteFail(i)

\* a call of handleSearch returns: the quote or the candles
SearchReturns ==
    \E p \in InFlight :
        \/ \E price \in Prices : SearchQuoteOk(p, price)
        \/ SearchQuoteFail(p)
        \/ \E n \in 1..MaxHist : SearchCandleOk(p, n)
        \/ SearchCandleNoData(p)
        \/ SearchCandleFail(p)

\* every call the load and the searches wait on eventually returns or fails
FairSpec == Spec /\ WF_vars(LoadReturns) /\ WF_vars(SearchReturns)

(* ------------------------------ properties ---------------------------- *)
SymbolsIn(items) == {items[i].symbol : i \in 1..Len(items)}

\* fetchWatchlist has just run to its end after a successful listing
LoadCompleted ==
    /\ lastStep.kind \in {"LoadSelectOk", "LoadQuoteOk", "LoadQuoteFail"}
    /\ load.pc = "idle"

\* C1: failure isolation of load(): no step of a load whose listing succeeded
\* sets the error, and when the load completes the Watchlist has one entry
\* per listed row, with its quote unset exactly where the quote fetch failed.
C1_LoadIsolatesQuoteFailures ==
    /\ lastStep.kind \in {"LoadSelectOk", "LoadQuoteOk", "LoadQuoteFail"}
          => error = lastStep.preError
    /\ LoadCompleted =>
          /\ ~watchlistLoading
          /\ Len(watchlist) = Len(lastStep.data)
          /\ \A i \in 1..Len(lastStep.data) :
                /\ watchlist[i].symbol = lastStep.data[i].symbol
                /\ (i \in lastStep.failed) <=> (watchlist[i].quote = <<>>)

\* a load of two rows completed with exactly one quote fetch failed
C1_Witness ==
    /\ LoadCompleted
    /\ Len(lastStep.data) = 2
    /\ Cardinality(lastStep.failed) = 1

\* C2: an add for a symbol not in the Watchlist whose insert succeeded ends
\* with the Watchlist one entry longer and holding the symbol, whether the
\* quote fetch succeeded or failed (on failure the entry has no quote).
C2_AddAppendsAfterInsert ==
    (/\ lastStep.kind \in {"AddQuoteOk", "AddQuoteFail"}
     /\ lastStep.symbol \notin SymbolsIn(lastStep.pre))
    => /\ Len(watchlist) = Len(lastStep.pre) + 1
       /\ watchlist[Len(watchlist)].symbol = lastStep.symbol
       /\ lastStep.kind = "AddQuoteFail"
             => watchlist[Len(watchlist)].quote = <<>>

\* C3: invariant I1, no two entries of the Watchlist share a symbol.
C3_NoDuplicateSymbols ==
    \A i, j \in 1..Len(watchlist) :
        i # j => watchlist[i].symbol # watchlist[j].symbol

\* C4: add is gated by contains: an add never inserts into the Store nor
\* appends to the Watchlist when the Watchlist already holds its symbol.
C4_AddGatedByContains ==
    lastStep.kind \in {"AddInsertOk", "AddQuoteOk"}
        => lastStep.symbol \notin SymbolsIn(lastStep.pre)

\* C5: after load() the Watchlist holds the listed rows in the listing's
\* order, whatever the order in which the quote fetches settled.
C5_LoadKeepsStoreOrder ==
    LoadCompleted =>
        /\ Len(watchlist) = Len(lastStep.data)
        /\ \A i \in 1..Len(lastStep.data) :
              /\ watchlist[i].id = lastStep.data[i].id
              /\ watchlist[i].symbol = lastStep.data[i].symbol

\* a load of two rows with different symbols in which the fetch of the first
\* row settled last
C5_Witness ==
    /\ LoadCompleted
    /\ Len(lastStep.data) = 2
    /\ lastStep.data[1].symbol # lastStep.data[2].symbol
    /\ lastStep.symbol = lastStep.data[1].symbol

\* C6: when the insert of an add fails the Watchlist is what it was, the
\* add's error is shown, and the add ends without calling the Quote Fetcher.
C6_AddInsertFailure ==
    lastStep.kind = "AddInsertFail" =>
        /\ watchlist = lastStep.pre
        /\ error = AddFailed
        /\ lastStep.calls = {}
        /\ BagCardinality(procs) = lastStep.inFlight - 1

\* an insert failed while the Watchlist held an entry and showed no error
C6_Witness ==
    /\ lastStep.kind = "AddInsertFail"
    /\ lastStep.pre # <<>>
    /\ lastStep.preError = ""

\* C7: when the delete of a remove fails the Watchlist is what it was and
\* the remove's error is shown.
C7_RemoveDeleteFailure ==
    lastStep.kind = "RemoveDeleteFail" =>
        /\ watchlist = lastStep.pre
        /\ error = RemoveFailed

\* a delete failed for a symbol the Watchlist holds
C7_Witness ==
    /\ lastStep.kind = "RemoveDeleteFail"
    /\ lastStep.symbol \in SymbolsIn(watchlist)
    /\ lastStep.preError = ""

\* the positions of items whose symbol is not symbol
KeptPositions(items, symbol) ==
    {i \in 1..Len(items) : items[i].symbol # symbol}

\* the k-th smallest element of a set of positions
KthPosition(positions, k) ==
    CHOOSE i \in positions : Cardinality({j \in positions : j <= i}) = k

C9_RemoveAbsentIsSilent ==
    (/\ lastStep.kind \in {"RemoveDeleteOk", "RemoveDeleteFail"}
     /\ lastStep.symbol \notin SymbolsIn(lastStep.pre))
    => /\ watchlist = lastStep.pre
       /\ error = lastStep.preError

\* C9 amended: a remove of a symbol the Watchlist does not hold never changes
\* the Watchlist; it leaves the error alone when the Store delete succeeds,
\* and shows the remove's error when the Store delete fails.
C9_RemoveAbsentKeepsWatchlist ==
    (/\ lastStep.kind \in {"RemoveDeleteOk", "RemoveDeleteFail"}
     /\ lastStep.symbol \notin SymbolsIn(lastStep.pre))
    => /\ watchlist = lastStep.pre
       /\ lastStep.kind = "RemoveDeleteOk" => error = lastStep.preError
       /\ lastStep.kind = "RemoveDeleteFail" => error = RemoveFailed

\* a delete succeeded for a symbol the non-empty Watchlist did not hold
C9_Witness ==
    /\ lastStep.kind = "RemoveDeleteOk"
    /\ lastStep.symbol \notin SymbolsIn(lastStep.pre)
    /\ lastStep.pre # <<>>
    /\ lastStep.preError = ""

\* C10: when the quote fetch of a search fails the error is shown and
\* neither a quote nor a history series is displayed.
C10_SearchFailureClearsResult ==
    lastStep.kind = "SearchQuoteFail" =>
        /\ error = FetchStockFailed
        /\ stockData = <<>>
        /\ chartData = <<>>

\* C11: short circuit of search: a candle request is issued only by the step
\* in which the quote fetch of the same search succeeded, for that search's
\* symbol; the step in which the quote fetch fails issues no request and
\* ends the search.
C11_HistoryOnlyAfterQuote ==
    /\ \A c \in lastStep.calls :
          c.api = "candle" => /\ lastStep.kind = "SearchQuoteOk"
                              /\ c.symbol = lastStep.symbol
    /\ \A p \in InFlight :
          p.pc = "candle" => p.kind = "search"
    /\ lastStep.kind = "SearchQuoteFail" =>
          /\ lastStep.calls = {}
          /\ BagCardinality(procs) = lastStep.inFlight - 1

\* the quote fetch of a search failed while no other call was in flight
C11_Witness ==
    /\ lastStep.kind = "SearchQuoteFail"
    /\ lastStep.inFlight = 1
    /\ stockData = <<>>

\* C12: when the quote fetch of a search succeeded and its history fetch
\* fails or answers no-data, the search ends with the fetched quote
\* displayed, an empty history series and no error set.
C12_HistoryFailureKeepsQuote ==
    lastStep.kind \in {"SearchCandleNoData", "SearchCandleFail"} =>
        /\ stockData # <<>>
        /\ stockData[1].symbol = lastStep.symbol
        /\ chartData = <<>>
        /\ error = lastStep.preError

\* the call a toggle of symbol starts when the Watchlist is items: one
\* delete-by-symbol if items holds the symbol, one insert otherwise
ToggleCall(items, symbol) ==
    IF symbol \in SymbolsIn(items)
    THEN [kind |-> "remove", pc |-> "delete", symbol |-> symbol, row |-> NoRow]
    ELSE [kind |-> "add", pc |-> "insert", symbol |-> symbol, row |-> NoRow]

\* C13: a toggle starts exactly one Store mutation, the delete-by-symbol of
\* removeFromWatchlist when the Watchlist holds the symbol at the call and the
\* insert of addToWatchlist otherwise, and changes nothing itself: the
\* Watchlist changes as that remove or add changes it.
C13_ToggleIsRemoveOrAdd ==
    lastStep.kind = "handleWatchlistToggle" =>
        /\ BagCardinality(procs) = lastStep.inFlight + 1
        /\ BagIn(ToggleCall(lastStep.pre, lastStep.symbol), procs)
        /\ watchlist = lastStep.pre
        /\ error = lastStep.preError

\* a toggle of a symbol the Watchlist holds, with another call in flight
C13_Witness ==
    /\ lastStep.kind = "handleWatchlistToggle"
    /\ lastStep.symbol \in SymbolsIn(lastStep.pre)
    /\ lastStep.inFlight = 1

\* C14: idempotence of load(): a load that follows another with no Store
\* write in between ends with the same symbols in the same order, whatever
\* the outcomes of the quote fetches of either load.
C14_LoadIdempotent ==
    (LoadCompleted /\ lastStep.prevLoad # <<>>)
        => SymbolSeq(watchlist) = lastStep.prevLoad[1]

\* a second load of the same two rows in which a quote fetch failed
C14_Witness ==
    /\ LoadCompleted
    /\ lastStep.prevLoad # <<>>
    /\ Len(lastStep.prevLoad[1]) = 2
    /\ lastStep.failed # {}

SearchInFlight == \E p \in InFlight : p.kind = "search"

\* C15: when searches overlap, the display after the last of them has ended
\* is the result of the search that ended last: its quote and its history,
\* or no quote when its quote fetch failed.
C15_LastResolverWins ==
    (/\ lastStep.kind \in {"SearchCandleOk", "SearchCandleNoData",
                           "SearchCandleFail", "SearchQuoteFail"}
     /\ ~SearchInFlight)
    => IF lastStep.kind = "SearchQuoteFail"
       THEN stockData = <<>>
       ELSE /\ stockData # <<>>
            /\ stockData[1].symbol = lastStep.symbol
            /\ IF lastStep.kind = "SearchCandleOk"
               THEN /\ chartData # <<>>
                    /\ chartData[1].symbol = lastStep.symbol
               ELSE chartData = <<>>

\* the steps that may write the Watchlist: those of load, add and remove,
\* and the construction of a new page
WatchlistSteps ==
    {"LoadSelectOk", "LoadQuoteOk", "LoadQuoteFail", "AddQuoteOk",
     "RemoveDeleteOk", "Mount"}

\* the steps that may write the displayed quote or history: those of a
\* search, and the construction of a new page
SearchSteps ==
    {"SearchQuoteOk", "SearchQuoteFail", "SearchCandleOk",
     "SearchCandleNoData", "SearchCandleFail", "Mount"}

\* C16: the Watchlist changes only in steps of load, add and remove, so no
\* step of a search, of selecting a watchlist item or of the panel button
\* changes it; the displayed quote and history change only in steps of a
\* search, so no step of load, add or remove changes them.
C16_FrameOfWatchlistAndSearch ==
    [][/\ watchlist' # watchlist => lastStep'.kind \in WatchlistSteps
       /\ (stockData' # stockData \/ chartData' # chartData)
             => lastStep'.kind \in SearchSteps]_vars

\* an add has appended an entry while a quote and a history were displayed
C16_Witness ==
    /\ lastStep.kind = "AddQuoteOk"
    /\ stockData # <<>>
    /\ chartData # <<>>
    /\ watchlist # lastStep.pre

\* C17: selecting the watchlist item of symbol S starts a search for S: the
\* quote request the selection issues is for S, whatever the search box held.
C17_SelectSearchesSelected ==
    lastStep.kind = "handleWatchlistSelect" =>
        /\ lastStep.calls = {QuoteCall(lastStep.symbol)}
        /\ BagIn([kind |-> "search", pc |-> "quote",
                  symbol |-> lastStep.symbol, row |-> NoRow], procs)

\* C18: with add, remove and search run one at a time after a load whose
\* listing succeeded, whenever nothing is in flight the Watchlist and the
\* Store hold the same set of symbols.
C18_StoreViewConsistent ==
    (Quiescent /\ lastStep.serial)
        => SymbolsIn(watchlist) = SymbolsIn(store)

\* C19: whenever nothing is in flight and both a quote and a non-empty
\* history are displayed, they are of the same symbol.
C19_QuoteAndHistorySameSymbol ==
    (Quiescent /\ stockData # <<>> /\ chartData # <<>>)
        => chartData[1].symbol = stockData[1].symbol

\* the steps in which a call of handleSearch runs to its end
SearchEnds ==
    {"SearchQuoteFail", "SearchCandleOk", "SearchCandleNoData",
     "SearchCandleFail"}

\* the steps in which a call of fetchWatchlist may run to its end
LoadEnds == {"LoadSelectOk", "LoadSelectFail", "LoadQuoteOk", "LoadQuoteFail"}

\* C20: provided every call eventually returns or fails, busy flags are
\* released. The step that ends a search leaves loading false and the step
\* that ends a load leaves watchlistLoading false, whatever the outcome of
\* the listing, the quotes and the history; and each flag is down again and
\* again, that is, every state in which it is up is followed by one in
\* which it is down.
C20_BusyFlagsReleased ==
    /\ [](lastStep.kind \in SearchEnds => ~loading)
    /\ []((lastStep.kind \in LoadEnds /\ load.pc = "idle")
             => ~watchlistLoading)
    /\ []<>(~watchlistLoading)
    /\ []<>(~loading)

\* a search has ended on a failed history fetch and released its flag
C20_Witness ==
    /\ lastStep.kind = "SearchCandleFail"
    /\ ~loading
    /\ ~watchlistLoading
    /\ ~SearchInFlight

====
